---------------------------- MODULE Spec2Model ----------------------------
(***************************************************************************)
(* A model of src/src/App.tsx (reddit-to-llm): the identifier normalizer,  *)
(* the reply-tree flattener, the statistics aggregation, the LLM / compact *)
(* / JSON renderers and the fetchThread orchestrator with its React state. *)
(*                                                                         *)
(* Strings are sequences of symbols.  A symbol is either one character     *)
(* ("/", " ", "\t", "\n", "x", ...) or an atomic run of characters that    *)
(* contains none of the characters the code inspects ("comments",          *)
(* "https:", "TITLE: ", ...).                                              *)
(***************************************************************************)
EXTENDS Integers, Sequences, FiniteSets, TLC

VARIABLES
    input,          \* useState input        (App.tsx:78)
    loading,        \* useState loading      (App.tsx:79)
    error,          \* useState error        (App.tsx:80)
    stats,          \* useState stats        (App.tsx:81)
    metaTitle,      \* useState metaTitle    (App.tsx:82)
    metaSubreddit,  \* useState metaSubreddit(App.tsx:83)
    outputs,        \* useState outputs      (App.tsx:84)
    mounted,        \* whether the mount effect (App.tsx:215) has run
    calls,          \* fetchThread activations suspended at an await
    requests,       \* number of network requests issued so far
    last,           \* what the most recent operation was given and met
    fnPc,           \* position of a function-level run: "ready" / "done"
    fnArg,          \* the argument of a function-level run
    fnRet           \* its result

vars == <<input, loading, error, stats, metaTitle, metaSubreddit, outputs,
          mounted, calls, requests, last, fnPc, fnArg, fnRet>>

appVars == <<input, loading, error, stats, metaTitle, metaSubreddit, outputs,
             mounted, calls, requests, last>>

(***************************************************************************)
(* Bounds                                                                  *)
(***************************************************************************)
MaxInputLen == 4

(***************************************************************************)
(* Strings                                                                 *)
(***************************************************************************)
SP == " "
TAB == "\t"
NL == "\n"
SLASH == "/"

\* The characters String.prototype.trim strips and the regexp class \s matches.
WhiteSpace == {SP, TAB, NL}

\* All sequences over S of length at most n.
SeqsUpTo(S, n) == UNION {[1..k -> S] : k \in 0..n}

RECURSIVE TrimStart(_)
TrimStart(s) ==
    IF s # <<>> /\ Head(s) \in WhiteSpace THEN TrimStart(Tail(s)) ELSE s

RECURSIVE TrimEnd(_)
TrimEnd(s) ==
    IF s # <<>> /\ s[Len(s)] \in WhiteSpace
    THEN TrimEnd(SubSeq(s, 1, Len(s) - 1))
    ELSE s

\* String.prototype.trim
Trim(s) == TrimEnd(TrimStart(s))

\* String.prototype.includes for a one-character needle
Includes(s, c) == \E i \in 1..Len(s) : s[i] = c

\* String.prototype.split(sep) for a one-character separator: the pieces
\* between separators, empty pieces included.
RECURSIVE SplitAcc(_, _, _)
SplitAcc(s, sep, cur) ==
    IF s = <<>> THEN <<cur>>
    ELSE IF Head(s) = sep THEN <<cur>> \o SplitAcc(Tail(s), sep, <<>>)
    ELSE SplitAcc(Tail(s), sep, Append(cur, Head(s)))

Split(s, sep) == SplitAcc(s, sep, <<>>)

\* Array.prototype.indexOf, 1-based; 0 stands for -1.
IndexOf(arr, v) ==
    IF \E i \in 1..Len(arr) : arr[i] = v
    THEN CHOOSE i \in 1..Len(arr) :
            arr[i] = v /\ \A j \in 1..(i - 1) : arr[j] # v
    ELSE 0

(***************************************************************************)
(* new URL(s).pathname for the inputs of the model.  The only scheme is    *)
(* the symbol "https:" and it occurs at most once, at the start.  The URL  *)
(* parser removes tabs and newlines, fails without a scheme (there is no   *)
(* base URL), skips the slashes after a special scheme, reads the host up  *)
(* to the next "/", fails on an empty host or a space in the host, and     *)
(* percent-encodes a space in the path.                                    *)
(***************************************************************************)
SCHEME == "https:"
COMMENTS == "comments"
PCT20 == "%20"

RemoveTabNl(s) == SelectSeq(s, LAMBDA c : c \notin {TAB, NL})

RECURSIVE SkipSlashes(_)
SkipSlashes(s) ==
    IF s # <<>> /\ Head(s) = SLASH THEN SkipSlashes(Tail(s)) ELSE s

PercentEncodePath(s) == [i \in 1..Len(s) |-> IF s[i] = SP THEN PCT20 ELSE s[i]]

URLFailure == [ok |-> FALSE, pathname |-> <<>>]

ParseURL(s) ==
    LET t == RemoveTabNl(s) IN
    IF t = <<>> \/ Head(t) # SCHEME THEN URLFailure
    ELSE LET auth == SkipSlashes(Tail(t))
             cut == IndexOf(auth, SLASH)
             host == IF cut = 0 THEN auth ELSE SubSeq(auth, 1, cut - 1)
             path == IF cut = 0 THEN <<>> ELSE SubSeq(auth, cut, Len(auth))
         IN  IF host = <<>> \/ Includes(host, SP) THEN URLFailure
             ELSE [ok |-> TRUE,
                   pathname |-> IF path = <<>> THEN <<SLASH>>
                                ELSE PercentEncodePath(path)]

(***************************************************************************)
(* normalizeToPostId (App.tsx:26-39).  null is NULLID; a returned string s *)
(* is [ok |-> TRUE, id |-> s].                                             *)
(***************************************************************************)
NULLID == [ok |-> FALSE, id |-> <<>>]

PostId(s) == [ok |-> TRUE, id |-> s]

\* u.pathname.split("/").filter(Boolean)
PathParts(pathname) == SelectSeq(Split(pathname, SLASH), LAMBDA p : p # <<>>)

normalizeToPostId(raw) ==
    LET trimmed == Trim(raw) IN
    IF ~Includes(trimmed, SLASH) /\ ~Includes(trimmed, SP) THEN PostId(trimmed)
    ELSE LET u == ParseURL(trimmed) IN
         IF ~u.ok THEN NULLID        \* new URL throws, caught at line 36
         ELSE LET parts == PathParts(u.pathname)
                  idx == IndexOf(parts, <<COMMENTS>>)
              IN  IF idx = 0 \/ idx + 1 > Len(parts) THEN NULLID
                  ELSE PostId(parts[idx + 1])

\* The inputs of the function-level runs of normalizeToPostId: optional
\* leading white space, an optional scheme, then up to MaxInputLen symbols.
NormChars == {SLASH, SP, TAB, "x", COMMENTS}

NormInputs ==
    {lead \o sch \o rest :
        lead \in {<<>>, <<SP>>},
        sch \in {<<>>, <<SCHEME>>},
        rest \in SeqsUpTo(NormChars, MaxInputLen)}


(***************************************************************************)
(* JavaScript values of the payload.  A comment's score is a number or is  *)
(* absent (undefined); a body or selftext is a string, absent, or a value  *)
(* of another type (the number 7).                                         *)
(***************************************************************************)
Num(n) == [t |-> "number", n |-> n]
NoScore == [t |-> "undefined", n |-> 0]

Str(s) == [t |-> "string", s |-> s]
NoText == [t |-> "undefined", s |-> <<>>]
NumText == [t |-> "number", s |-> <<>>]

\* null / a value, for state that is T | null
Null == <<>>
Some(v) == <<v>>

\* value || ""   (lines 50, 149)
OrEmpty(v) == IF v.t = "undefined" \/ (v.t = "string" /\ v.s = <<>>)
              THEN Str(<<>>) ELSE v

\* c.score || 0  (line 128)
OrZero(v) == IF v.t = "number" THEN v.n ELSE 0

(***************************************************************************)
(* The reply tree.  A forest is written flat, node i carrying the index of *)
(* its parent (0: the post) and siblings ordered by index; Nest builds the *)
(* nested listing the API returns (data[1].data.children, line 118).       *)
(***************************************************************************)
T1 == "t1"
MORE == "more"
NULLKIND == "null"

NullItem == [kind |-> NULLKIND]
NoReplies == [kind |-> "none"]
Listing(children) == [kind |-> "Listing", data |-> [children |-> children]]

ChildIdx(F, p) == {i \in 1..Len(F) : F[i].parent = p}

RECURSIVE SortedIdx(_)
SortedIdx(S) ==
    IF S = {} THEN <<>>
    ELSE LET m == CHOOSE x \in S : \A y \in S : x <= y
         IN  <<m>> \o SortedIdx(S \ {m})

RECURSIVE NestItems(_, _)
NestItems(F, p) ==
    LET idx == SortedIdx(ChildIdx(F, p))
        item(i) ==
            IF F[i].kind = NULLKIND THEN NullItem
            ELSE [kind |-> F[i].kind,
                  data |-> [id |-> i,
                            author |-> F[i].author,
                            score |-> F[i].score,
                            body |-> F[i].body,
                            parent_id |-> p,
                            replies |-> IF ChildIdx(F, i) = {} THEN NoReplies
                                        ELSE Listing(NestItems(F, i))]]
    IN  [k \in 1..Len(idx) |-> item(idx[k])]

Nest(F) == NestItems(F, 0)

DELETED == "[deleted]"

(***************************************************************************)
(* walkComments (App.tsx:41-59); the out array is threaded through.        *)
(***************************************************************************)
RECURSIVE walkCommentsSameDepth(_, _, _)
walkCommentsSameDepth(items, depth, out) ==
    IF items = <<>> THEN out
    ELSE LET item == Head(items) IN
         IF item.kind # T1
         THEN walkCommentsSameDepth(Tail(items), depth, out)
         ELSE LET c == item.data
                  pushed == Append(out,
                      [id |-> c.id,
                       author |-> IF c.author = "" THEN DELETED ELSE c.author,
                       score |-> c.score,
                       body |-> OrEmpty(c.body),
                       parent_id |-> c.parent_id,
                       depth |-> depth])
                  walked == IF c.replies.kind = "Listing"
                            THEN walkCommentsSameDepth(
                                    c.replies.data.children, depth, pushed)
                            ELSE pushed
              IN  walkCommentsSameDepth(Tail(items), depth, walked)

RECURSIVE walkComments(_, _, _)
walkComments(items, depth, out) ==
    IF items = <<>> THEN out
    ELSE LET item == Head(items) IN
         IF item.kind # T1                          \* line 43: continue
         THEN walkComments(Tail(items), depth, out)
         ELSE LET c == item.data
                  pushed == Append(out,
                      [id |-> c.id,
                       author |-> IF c.author = "" THEN DELETED ELSE c.author,
                       score |-> c.score,
                       body |-> OrEmpty(c.body),
                       parent_id |-> c.parent_id,
                       depth |-> depth])
                  walked == IF c.replies.kind = "Listing"
                            THEN walkComments(
                                    c.replies.data.children, depth + 1, pushed)
                            ELSE pushed
              IN  walkComments(Tail(items), depth, walked)

\* The forests of the function-level runs of walkComments.
MaxWalkNodes == 4

WalkNode(k, p) ==
    [kind |-> k, parent |-> p, author |-> "ann", score |-> Num(1),
     body |-> Str(<<"a">>)]

WalkForests ==
    UNION {
        {F \in [1..n -> {WalkNode(k, p) : k \in {T1, MORE, NULLKIND},
                                         p \in 0..(n - 1)}] :
            \A i \in 1..n : /\ F[i].parent < i
                            /\ F[i].parent # 0 => F[F[i].parent].kind # NULLKIND}
        : n \in 0..MaxWalkNodes}


(***************************************************************************)
(* comments.sort((a, b) => b.score - a.score)   (App.tsx:124).             *)
(* With every score a number the comparator is consistent and the sort is  *)
(* the stable sort by descending score.  An absent score makes the         *)
(* comparator return NaN: it is then not a consistent comparator and the   *)
(* order of the result is implementation-defined (ECMAScript,              *)
(* Array.prototype.sort), any permutation of the array.                    *)
(***************************************************************************)
ConsistentComparator(comments) ==
    \A i \in 1..Len(comments) : comments[i].score.t = "number"

RECURSIVE InsertByScore(_, _)
InsertByScore(sorted, c) ==
    IF sorted = <<>> THEN <<c>>
    ELSE IF Head(sorted).score.n - c.score.n >= 0
         THEN <<Head(sorted)>> \o InsertByScore(Tail(sorted), c)
         ELSE <<c>> \o sorted

RECURSIVE StableSortDesc(_)
StableSortDesc(comments) ==
    IF comments = <<>> THEN <<>>
    ELSE InsertByScore(
            StableSortDesc(SubSeq(comments, 1, Len(comments) - 1)),
            comments[Len(comments)])

PermutationsOf(s) ==
    {[i \in 1..Len(s) |-> s[p[i]]] :
        p \in {q \in [1..Len(s) -> 1..Len(s)] :
                  \A i, j \in 1..Len(s) : q[i] = q[j] => i = j}}

SortResults(comments) ==
    IF ConsistentComparator(comments) THEN {StableSortDesc(comments)}
    ELSE PermutationsOf(comments)

(***************************************************************************)
(* The statistics (App.tsx:126-142).  A quotient is kept as the fraction   *)
(* num / den; the literal 0 is 0 / 1.                                      *)
(***************************************************************************)
Ratio(n, d) == [num |-> n, den |-> d]
ZeroRatio == Ratio(0, 1)

\* comments.reduce((sum, c) => sum + (c.score || 0), 0)
RECURSIVE ReduceScores(_, _)
ReduceScores(comments, sum) ==
    IF comments = <<>> THEN sum
    ELSE ReduceScores(Tail(comments), sum + OrZero(Head(comments).score))

ComputeStats(post, comments) ==
    LET totalComments == Len(comments)
        totalCommentScore == ReduceScores(comments, 0)
        avgCommentScore ==
            IF totalComments > 0 THEN Ratio(totalCommentScore, totalComments)
            ELSE ZeroRatio
        commentsPerScorePoint ==
            IF totalCommentScore > 0 THEN Ratio(totalComments, totalCommentScore)
            ELSE ZeroRatio
    IN  [postScore |-> post.score,
         totalComments |-> totalComments,
         totalCommentScore |-> totalCommentScore,
         avgCommentScore |-> avgCommentScore,
         commentsPerScorePoint |-> commentsPerScorePoint]

(***************************************************************************)
(* The renderers (App.tsx:61-75, 148-195).                                 *)
(***************************************************************************)
RECURSIVE CollapseWs(_)
\* s.replace(/\s+/g, " ")
CollapseWs(s) ==
    IF s = <<>> THEN <<>>
    ELSE IF Head(s) \in WhiteSpace
         THEN <<SP>> \o CollapseWs(TrimStart(Tail(s)))
         ELSE <<Head(s)>> \o CollapseWs(Tail(s))

\* s.replace(/\n{2,}/, "\n"): without the g flag only the first run is replaced
RECURSIVE CollapseFirstRun(_, _)
CollapseFirstRun(s, seen) ==
    IF Len(s) < 2 THEN s
    ELSE IF s[1] = NL /\ s[2] = NL THEN CollapseFirstRun(Tail(s), TRUE)
    ELSE IF seen /\ s[1] = NL THEN s
    ELSE <<Head(s)>> \o CollapseFirstRun(Tail(s), seen)

CollapseNewlinesFirstOnly(s) == CollapseFirstRun(s, FALSE)

RECURSIVE CollapseNewlines(_)
\* s.replace(/\n{2,}/g, "\n")
CollapseNewlines(s) ==
    IF Len(s) < 2 THEN s
    ELSE IF s[1] = NL /\ s[2] = NL THEN CollapseNewlines(Tail(s))
    ELSE <<Head(s)>> \o CollapseNewlines(Tail(s))

\* The pieces of the templates; none holds a newline or white space the
\* code looks at.
LLM_OPEN == "["
LLM_USER == "] u/"
TOON_USER == " <U+00B7> u/"
TOON_COLON == ": "
COMMENTS_HDR == "COMMENTS:"

\* `d${c.depth}`
DepthLabel(c) == <<"d", ToString(c.depth)>>

formatCommentLLM(c) ==
    LET body == Trim(c.body.s) IN
    IF body = <<>> THEN <<>>
    ELSE <<LLM_OPEN>> \o DepthLabel(c) \o <<LLM_USER, c.author, NL>>
         \o body \o <<NL, NL>>

formatCommentToon(c) ==
    LET oneLineBody == Trim(CollapseWs(c.body.s)) IN
    IF oneLineBody = <<>> THEN <<>>
    ELSE DepthLabel(c) \o <<TOON_USER, c.author, TOON_COLON>>
         \o oneLineBody \o <<NL>>

\* for (const c of comments) llm += formatCommentLLM(c)   (lines 160-162)
RECURSIVE ConcatLLM(_)
ConcatLLM(comments) ==
    IF comments = <<>> THEN <<>>
    ELSE formatCommentLLM(Head(comments)) \o ConcatLLM(Tail(comments))

\* for (const c of comments) toon += formatCommentToon(c) (lines 174-176)
RECURSIVE ConcatToon(_)
ConcatToon(comments) ==
    IF comments = <<>> THEN <<>>
    ELSE formatCommentToon(Head(comments)) \o ConcatToon(Tail(comments))

\* line 148
PostAuthor(post) ==
    IF post.author = "" THEN <<"[unknown]">> ELSE <<"u/", post.author>>

\* line 149; a selftext that is no string has no trim method
PostBody(post) == Trim(OrEmpty(post.selftext).s)

BodySection(body) ==
    IF body # <<>> THEN body \o <<NL, NL>> ELSE <<"(no body)", NL, NL>>

RenderLLM(post, comments) ==
    CollapseNewlines(
        <<"TITLE: ">> \o post.title \o <<NL>>
        \o <<"SUBREDDIT: r/">> \o post.subreddit \o <<NL>>
        \o <<"POST_AUTHOR: ">> \o PostAuthor(post) \o <<NL, NL>>
        \o <<"POST_BODY:", NL>>
        \o BodySection(PostBody(post))
        \o <<COMMENTS_HDR, NL>>
        \o <<"# [dX] u/author", NL, "# comment text", NL, NL>>
        \o ConcatLLM(comments))

RenderToon(post, comments) ==
    CollapseNewlines(
        <<"TITLE: ">> \o post.title \o <<NL>>
        \o <<"SUBREDDIT: r/">> \o post.subreddit \o <<NL>>
        \o <<"POST_AUTHOR: ">> \o PostAuthor(post) \o <<NL, NL>>
        \o <<"POST_BODY: ">>
        \o BodySection(PostBody(post))
        \o <<COMMENTS_HDR, NL>>
        \o ConcatToon(comments))

\* jsonObj (lines 180-194).  JSON.stringify(jsonObj, null, 2) is kept as the
\* one-element string <<jsonObj>>: the document, never the empty string.
RenderJSON(post, newStats, comments) ==
    <<[title |-> post.title,
       subreddit |-> post.subreddit,
       postAuthor |-> PostAuthor(post),
       body |-> PostBody(post),
       stats |-> newStats,
       comments |-> [i \in 1..Len(comments) |->
                        [id |-> comments[i].id,
                         author |-> comments[i].author,
                         body |-> comments[i].body,
                         score |-> comments[i].score,
                         depth |-> comments[i].depth,
                         parent_id |-> comments[i].parent_id]]]>>

\* .trim() / .replace() of a value that is no string throws a TypeError
\* (lines 149, 64, 72)
RenderThrows(post, comments) ==
    \/ OrEmpty(post.selftext).t # "string"
    \/ \E i \in 1..Len(comments) : comments[i].body.t # "string"


(***************************************************************************)
(* The state of the component after construction (App.tsx:78-89).          *)
(***************************************************************************)
NoOutputs == [txt |-> <<>>, toon |-> <<>>, json |-> <<>>]

\* a payload that has not arrived
NoData == [shape |-> "none", post |-> [title |-> <<>>, subreddit |-> <<>>,
           author |-> "", selftext |-> NoText, score |-> 0], flat |-> <<>>]

\* `last` before any operation: op names the latest event; the other fields
\* describe the fetchThread attempt that event started or continued
NoAttempt ==
    [op |-> "none", started |-> FALSE, done |-> FALSE, raw |-> <<>>,
     reqBefore |-> 0, hadStale |-> FALSE, net |-> "none", body |-> "none",
     data |-> NoData]

AppInit ==
    /\ input = <<>>
    /\ loading = FALSE
    /\ error = ""
    /\ stats = Null
    /\ metaTitle = Null
    /\ metaSubreddit = Null
    /\ outputs = NoOutputs
    /\ mounted = FALSE
    /\ calls = <<>>
    /\ requests = 0
    /\ last = NoAttempt

(***************************************************************************)
(* Function-level runs: Init draws the argument, the one action applies    *)
(* the function.                                                           *)
(***************************************************************************)
Return(v) ==
    /\ fnPc = "ready"
    /\ fnPc' = "done"
    /\ fnRet' = v
    /\ UNCHANGED <<fnArg, appVars>>

\* ---- normalizeToPostId
InitNormalize ==
    /\ AppInit
    /\ fnPc = "ready"
    /\ fnArg \in NormInputs
    /\ fnRet = NULLID

CallNormalize == Return(normalizeToPostId(fnArg))

SpecNormalize == InitNormalize /\ [][CallNormalize]_vars

\* ---- walkComments
InitWalk ==
    /\ AppInit
    /\ fnPc = "ready"
    /\ fnArg \in WalkForests
    /\ fnRet = <<>>

CallWalk == Return(walkComments(Nest(fnArg), 0, <<>>))

SpecWalk == InitWalk /\ [][CallWalk]_vars


\* a flattened record as walkComments pushes it
Comment(id, author, score, body, depth) ==
    [id |-> id, author |-> author, score |-> score, body |-> body,
     parent_id |-> 0, depth |-> depth]

\* ---- the statistics
MaxStatComments == 3

StatScores == {NoScore, Num(-2), Num(-1), Num(0), Num(1), Num(3)}

StatPost ==
    [title |-> <<"Hello">>, subreddit |-> <<"test">>, author |-> "",
     selftext |-> NoText, score |-> 10]

StatInputs ==
    {[i \in 1..Len(sc) |-> Comment(i, "ann", sc[i], Str(<<"a">>), 0)] :
        sc \in SeqsUpTo(StatScores, MaxStatComments)}

InitStats ==
    /\ AppInit
    /\ fnPc = "ready"
    /\ fnArg \in StatInputs
    /\ fnRet = Null

CallStats == Return(ComputeStats(StatPost, fnArg))

SpecStats == InitStats /\ [][CallStats]_vars

\* ---- the two text renderers
MaxBodyLen == 6

BodyChars == {"a", SP, NL}

SecondBodies == {<<SP, NL>>, <<"b">>, <<"b", TAB, NL, "b", NL, NL>>}

RenderPosts ==
    {StatPost,
     [title |-> <<"Hello">>, subreddit |-> <<"test">>, author |-> "op",
      selftext |-> Str(<<SP, "p", NL, NL, "q", NL>>), score |-> 10]}

RenderInputs ==
    {[post |-> p, comments |-> cs] :
        p \in RenderPosts,
        cs \in {<<>>}
            \cup {<<Comment(1, "ann", Num(1), Str(b), 0)>> :
                    b \in SeqsUpTo(BodyChars, MaxBodyLen)}
            \cup {<<Comment(1, "ann", Num(1), Str(b), 0),
                    Comment(2, DELETED, Num(0), Str(c), 1)>> :
                    b \in SeqsUpTo(BodyChars, MaxBodyLen), c \in SecondBodies}}

InitRender ==
    /\ AppInit
    /\ fnPc = "ready"
    /\ fnArg \in RenderInputs
    /\ fnRet = NoOutputs

CallRender ==
    Return([txt |-> RenderLLM(fnArg.post, fnArg.comments),
            toon |-> RenderToon(fnArg.post, fnArg.comments),
            json |-> <<>>])

SpecRender == InitRender /\ [][CallRender]_vars

(***************************************************************************)
(* The component (App.tsx:77-225): fetchThread, handleClick, the mount     *)
(* effect, and the continuations of fetchThread after its two awaits.      *)
(* Each action is one synchronous run of JavaScript; React renders the     *)
(* state the run leaves.                                                   *)
(***************************************************************************)
MsgEmpty == "Enter a URL or Post ID."
MsgInvalid == "Invalid URL or Post ID."
MsgFetchFailed == "Failed to load Reddit thread."
MsgNetwork == "Network error."

MaxRequests == 3

\* what the user types and what ?url= / ?id= may carry
ValidUrl == <<SCHEME, SLASH, SLASH, "x", SLASH, COMMENTS, SLASH, "x">>

InputSamples ==
    {<<>>, <<SP>>, <<"x">>, ValidUrl, <<"x", SP, "x">>, <<"x", TAB, "x">>,
     <<SCHEME, SLASH, SLASH, "x", SLASH, COMMENTS>>}

\* the thread payloads res.json() may resolve to
FlatNode(p, author, score, body) ==
    [kind |-> T1, parent |-> p, author |-> author, score |-> score,
     body |-> body]

Payload(title, selftext, flat) ==
    [shape |-> "ok",
     post |-> [title |-> title, subreddit |-> <<"test">>, author |-> "op",
               selftext |-> selftext, score |-> 10],
     flat |-> flat]

Payloads ==
    {[NoData EXCEPT !.shape = "malformed"],
     Payload(<<"Hello">>, NoText,
             <<FlatNode(0, "ann", Num(-1), Str(<<"a">>)),
               FlatNode(0, "", Num(5), Str(<<"b", NL, NL, "b">>))>>),
     Payload(<<"Bye">>, Str(<<"p">>),
             <<FlatNode(0, "ann", Num(1), Str(<<"a">>)),
               FlatNode(1, "bob", NoScore, NoText)>>),
     Payload(<<"Top">>, NoText,
             <<FlatNode(0, "ann", Num(1), Str(<<"a">>)),
               FlatNode(0, "bob", NoScore, Str(<<"b">>)),
               FlatNode(0, "cat", Num(5), Str(<<"c">>))>>),
     Payload(<<"Deep">>, Str(<<"p", NL, NL, "q">>),
             <<FlatNode(0, "ann", Num(0), Str(<<"a">>)),
               [FlatNode(0, "", Num(9), NoText) EXCEPT !.kind = MORE],
               FlatNode(1, "bob", Num(2), Str(<<SP, NL>>)),
               FlatNode(2, "cat", Num(7), Str(<<"c">>))>>),
     Payload(<<"Odd">>, NoText,
             <<FlatNode(0, "ann", Num(1), NumText)>>),
     Payload(<<"Odder">>, NumText, <<>>)}

\* setStats(null) ... setOutputs({...})   (lines 94-97)
ClearResultsKeepsStats ==
    /\ UNCHANGED stats
    /\ metaTitle' = Null
    /\ metaSubreddit' = Null
    /\ outputs' = NoOutputs

ClearResults ==
    /\ stats' = Null
    /\ metaTitle' = Null
    /\ metaSubreddit' = Null
    /\ outputs' = NoOutputs

HasResults ==
    \/ stats # Null
    \/ metaTitle # Null
    \/ metaSubreddit # Null
    \/ outputs # NoOutputs
    \/ error # ""

\* fetchThread up to its first await (lines 91-109)
fetchThread(raw, op) ==
    LET postId == normalizeToPostId(raw)
        attempt == [NoAttempt EXCEPT !.op = op, !.started = TRUE, !.raw = raw,
                                     !.reqBefore = requests,
                                     !.hadStale = HasResults]
    IN  /\ ClearResults
        /\ IF ~postId.ok \/ postId.id = <<>>            \* !postId
           THEN /\ error' = MsgInvalid
                /\ loading' = FALSE
                /\ last' = [attempt EXCEPT !.done = TRUE]
                /\ UNCHANGED <<calls, requests>>
           ELSE /\ error' = ""
                /\ loading' = TRUE
                /\ calls' = Append(calls, [postId |-> postId.id,
                                           stage |-> "fetch"])
                /\ requests' = requests + 1
                /\ last' = [attempt EXCEPT !.net = "pending"]

\* handleClick without the return of line 209
handleClickNoReturn == fetchThread(input, "handleClick")

\* handleClick (lines 206-212)
handleClick ==
    IF Trim(input) = <<>>
    THEN /\ error' = MsgEmpty
         /\ last' = [NoAttempt EXCEPT !.op = "handleClick"]
         /\ UNCHANGED <<loading, stats, metaTitle, metaSubreddit, outputs,
                        calls, requests>>
    ELSE fetchThread(input, "handleClick")

FetchButtonAlwaysEnabled == TRUE

\* <button onClick={handleClick} disabled={loading}>   (line 241)
FetchButtonEnabled == ~loading

HandleClick ==
    /\ FetchButtonEnabled
    /\ requests < MaxRequests
    /\ handleClick
    /\ UNCHANGED <<input, mounted, fnPc, fnArg, fnRet>>

\* onChange={(e) => setInput(e.target.value)}   (line 238).  Rendering the
\* new input flushes the pending mount effect first.
SetInput ==
    /\ mounted
    /\ \E v \in InputSamples : input' = v
    /\ last' = [NoAttempt EXCEPT !.op = "setInput"]
    /\ UNCHANGED <<loading, error, stats, metaTitle, metaSubreddit, outputs,
                   mounted, calls, requests, fnPc, fnArg, fnRet>>

\* the effect that runs once after the first render (lines 215-225);
\* initial is urlParam || idParam, <<>> when neither is given
Mount ==
    /\ ~mounted
    /\ mounted' = TRUE
    /\ \E initial \in InputSamples :
          IF initial = <<>>
          THEN /\ last' = [NoAttempt EXCEPT !.op = "mount"]
               /\ UNCHANGED <<input, loading, error, stats, metaTitle,
                              metaSubreddit, outputs, calls, requests>>
          ELSE /\ input' = initial
               /\ fetchThread(initial, "mount")
    /\ UNCHANGED <<fnPc, fnArg, fnRet>>

RemoveAt(q, i) == SubSeq(q, 1, i - 1) \o SubSeq(q, i + 1, Len(q))

\* catch (e) { setError("Network error.") }   (lines 198-200)
Catch == error' = MsgNetwork

FinallyLeavesLoading == UNCHANGED loading

\* finally { setLoading(false) }   (lines 201-203)
Finally == loading' = FALSE

\* await fetch(...) rejects: transport failure (line 107)
FetchRejects ==
    \E i \in 1..Len(calls) :
        /\ calls[i].stage = "fetch"
        /\ Catch
        /\ Finally
        /\ calls' = RemoveAt(calls, i)
        /\ last' = [last EXCEPT !.op = "fetchRejects", !.net = "rejected",
                                !.done = TRUE]
        /\ UNCHANGED <<input, stats, metaTitle, metaSubreddit, outputs,
                       mounted, requests, fnPc, fnArg, fnRet>>

\* the response arrives with !res.ok (lines 110-114), then finally
FetchNotOk ==
    \E i \in 1..Len(calls) :
        /\ calls[i].stage = "fetch"
        /\ error' = MsgFetchFailed
        /\ Finally
        /\ calls' = RemoveAt(calls, i)
        /\ last' = [last EXCEPT !.op = "fetchNotOk", !.net = "notok",
                                !.done = TRUE]
        /\ UNCHANGED <<input, stats, metaTitle, metaSubreddit, outputs,
                       mounted, requests, fnPc, fnArg, fnRet>>

\* the response arrives with res.ok; fetchThread awaits res.json() (line 116)
FetchOk ==
    \E i \in 1..Len(calls) :
        /\ calls[i].stage = "fetch"
        /\ calls' = [calls EXCEPT ![i].stage = "json"]
        /\ last' = [last EXCEPT !.op = "fetchOk", !.net = "ok",
                                !.body = "pending"]
        /\ UNCHANGED <<input, loading, error, stats, metaTitle, metaSubreddit,
                       outputs, mounted, requests, fnPc, fnArg, fnRet>>

\* res.json() rejects: the body is no JSON
JsonRejects ==
    \E i \in 1..Len(calls) :
        /\ calls[i].stage = "json"
        /\ Catch
        /\ Finally
        /\ calls' = RemoveAt(calls, i)
        /\ last' = [last EXCEPT !.op = "jsonRejects", !.body = "unparseable",
                                !.done = TRUE]
        /\ UNCHANGED <<input, stats, metaTitle, metaSubreddit, outputs,
                       mounted, requests, fnPc, fnArg, fnRet>>

\* lines 117-197 on the payload `data`, with `comments` the array after the
\* sort of line 124
Pipeline(data, comments) ==
    LET post == data.post
        newStats == ComputeStats(post, comments)
    IN  /\ stats' = Some(newStats)                              \* line 143
        /\ metaTitle' = Some(post.title)                        \* line 145
        /\ metaSubreddit' = Some(post.subreddit)                \* line 146
        /\ IF RenderThrows(post, comments)
           THEN /\ Catch
                /\ UNCHANGED outputs
           ELSE /\ outputs' = [txt |-> RenderLLM(post, comments),
                               toon |-> RenderToon(post, comments),
                               json |-> RenderJSON(post, newStats, comments)]
                /\ UNCHANGED error

\* res.json() resolves; the rest of the try block runs (lines 116-203)
JsonResolves ==
    \E i \in 1..Len(calls) : \E data \in Payloads :
        /\ calls[i].stage = "json"
        /\ IF data.shape # "ok"              \* data[0].data throws, line 117
           THEN /\ Catch
                /\ UNCHANGED <<stats, metaTitle, metaSubreddit, outputs>>
           ELSE \E comments \in
                      SortResults(walkComments(Nest(data.flat), 0, <<>>)) :
                    Pipeline(data, comments)
        /\ Finally
        /\ calls' = RemoveAt(calls, i)
        /\ last' = [last EXCEPT !.op = "jsonResolves", !.body = "parsed",
                                !.data = data, !.done = TRUE]
        /\ UNCHANGED <<input, mounted, requests, fnPc, fnArg, fnRet>>

Init ==
    /\ AppInit
    /\ fnPc = "idle"
    /\ fnArg = <<>>
    /\ fnRet = <<>>

Next ==
    \/ Mount
    \/ SetInput
    \/ HandleClick
    \/ FetchRejects
    \/ FetchNotOk
    \/ FetchOk
    \/ JsonRejects
    \/ JsonResolves

Spec == Init /\ [][Next]_vars

(***************************************************************************)
(* Claims about the component, checked under Spec.                         *)
(***************************************************************************)
\* the latest operation ended a fetchThread attempt
AttemptEnded == last.started /\ last.done

Flattened(data) == walkComments(Nest(data.flat), 0, <<>>)

\* a step of lines 117-197 throws on this payload
PipelineThrows(data) ==
    \/ data.shape # "ok"
    \/ RenderThrows(data.post, Flattened(data))

ResultsEmpty ==
    /\ stats = Null
    /\ metaTitle = Null
    /\ metaSubreddit = Null
    /\ outputs = NoOutputs

ResultsFull ==
    /\ stats # Null
    /\ metaTitle # Null
    /\ metaSubreddit # Null
    /\ outputs.txt # <<>>
    /\ outputs.toon # <<>>
    /\ outputs.json # <<>>

\* C1: an attempt's stats, metaTitle, metaSubreddit and three output strings
\* are populated only together and only when the whole pipeline succeeded;
\* no attempt ends with error set and any of them populated.
C1_NoPartialResults ==
    AttemptEnded =>
        /\ error # "" => ResultsEmpty
        /\ error = "" => ResultsFull

\* C2: at most one fetchThread call is awaiting the network at any time.
C2_OneFetchInFlight == Len(calls) <= 1

\* a click started a fetch after an earlier request had come back
C2_Witness ==
    /\ Len(calls) = 1
    /\ last.op = "handleClick"
    /\ last.reqBefore >= 1
    /\ loading

\* C3: while an attempt is in progress (loading) error is empty and every
\* result field is cleared, whatever the attempt before left; what is shown
\* once an attempt has ended comes from that attempt's payload.
C3_FetchingShowsNothingStale ==
    /\ loading => error = "" /\ ResultsEmpty
    /\ AttemptEnded /\ last.body # "parsed" => ResultsEmpty
    /\ AttemptEnded /\ last.body = "parsed" =>
          /\ stats \in {Null, Some(ComputeStats(last.data.post,
                                                Flattened(last.data)))}
          /\ metaTitle \in {Null, Some(last.data.post.title)}
          /\ metaSubreddit \in {Null, Some(last.data.post.subreddit)}
          /\ outputs.json # <<>> =>
                outputs.json[1].title = last.data.post.title

\* Fetching entered over the results or the error of an earlier attempt
C3_Witness ==
    /\ loading
    /\ last.hadStale
    /\ last.reqBefore >= 1
    /\ ResultsEmpty

\* C4: a failing attempt ends with loading false and the message of its
\* category: InvalidInput for an identifier the normalizer rejects, with no
\* request issued; FetchFailed for a non-success response; NetworkError for
\* a transport failure, an unparseable body or an exception in the pipeline.
\* No attempt is left unfinished by an exception that escaped.
C4_FailureMessages ==
    /\ loading => calls # <<>>
    /\ AttemptEnded =>
          /\ ~loading
          /\ normalizeToPostId(last.raw) = NULLID =>
                /\ error = MsgInvalid
                /\ requests = last.reqBefore
                /\ last.net = "none"
          /\ last.net = "notok" => error = MsgFetchFailed
          /\ last.net = "rejected" => error = MsgNetwork
          /\ last.body = "unparseable" => error = MsgNetwork
          /\ last.body = "parsed" /\ PipelineThrows(last.data) =>
                error = MsgNetwork
          /\ error \in {"", MsgInvalid, MsgFetchFailed, MsgNetwork}
          /\ error = "" => last.body = "parsed" /\ ~PipelineThrows(last.data)

\* an attempt that failed after its request, following one the normalizer
\* rejected
C4_Witness ==
    /\ AttemptEnded
    /\ ~loading
    /\ error = MsgNetwork
    /\ last.body = "parsed"
    /\ last.data.shape = "malformed"
    /\ last.hadStale

\* C9: on success the aggregation and the three renderers consumed one
\* sequence: a permutation of the flattened records, none altered, in
\* non-increasing score order, so that of two comments with different
\* scores the higher one comes first in all three outputs.
C9_OneSortedSequence ==
    AttemptEnded /\ last.body = "parsed" /\ error = "" =>
        LET post == last.data.post
            flat == Flattened(last.data)
            shown == outputs.json[1].comments
        IN  /\ Len(shown) = Len(flat)
            /\ \A k \in 1..Len(flat) :
                  \E j \in 1..Len(shown) :
                      /\ shown[j].id = flat[k].id
                      /\ shown[j].author = flat[k].author
                      /\ shown[j].body = flat[k].body
                      /\ shown[j].score = flat[k].score
                      /\ shown[j].depth = flat[k].depth
            /\ \A j, k \in 1..Len(shown) :
                  /\ j < k
                  /\ shown[j].score.t = "number"
                  /\ shown[k].score.t = "number"
                  => shown[j].score.n >= shown[k].score.n
            /\ outputs.txt = RenderLLM(post, shown)
            /\ outputs.toon = RenderToon(post, shown)
            /\ stats = Some(ComputeStats(post, shown))

\* C10: a click with blank input sets the EmptyInput message and nothing
\* else: no fetchThread attempt (so no normalizer call), no request, loading
\* unchanged, stats, metaTitle, metaSubreddit and outputs as they were.
C10_BlankClickOnlySetsError ==
    [][last'.op = "handleClick" /\ Trim(input) = <<>> =>
          /\ error' = MsgEmpty
          /\ ~last'.started
          /\ UNCHANGED <<input, loading, stats, metaTitle, metaSubreddit,
                         outputs, calls, requests, mounted>>]_vars

\* a blank click over the results of a successful fetch
C10_Witness ==
    /\ last.op = "handleClick"
    /\ ~last.started
    /\ Trim(input) = <<>>
    /\ error = MsgEmpty
    /\ ~loading
    /\ ResultsFull

(***************************************************************************)
(* C5.  The rule of spec 4.1, read with "whitespace" as any white-space    *)
(* character.                                                              *)
(***************************************************************************)
HasWhiteSpace(s) == \E i \in 1..Len(s) : s[i] \in WhiteSpace

Rule41(raw) ==
    LET t == Trim(raw) IN
    IF ~Includes(t, SLASH) /\ ~HasWhiteSpace(t) THEN PostId(t)
    ELSE LET u == ParseURL(t)
             parts == PathParts(u.pathname)
             at == {i \in 1..Len(parts) : parts[i] = <<COMMENTS>>}
             first == CHOOSE i \in at : \A j \in at : i <= j
         IN  IF ~u.ok \/ at = {} THEN NULLID
             ELSE IF first = Len(parts) THEN NULLID
             ELSE PostId(parts[first + 1])

\* C5: for every input string, normalizeToPostId returns what the rule of
\* spec 4.1 gives: the trimmed input when it holds no "/" and no white-space
\* character, otherwise the path segment after "comments" of the parsed URL,
\* and null when that fails.
C5_NormalizeFollowsRule41 ==
    fnPc = "done" => fnRet = Rule41(fnArg)

(***************************************************************************)
(* C6.  The pre-order listing, stated on the flat forest: the ancestors of *)
(* a node are read off the parent indices, and pre-order is the order of   *)
(* the root-to-node paths, a path before its extensions and siblings by    *)
(* index.                                                                  *)
(***************************************************************************)
RECURSIVE PathTo(_, _)
PathTo(F, i) ==
    IF F[i].parent = 0 THEN <<i>> ELSE Append(PathTo(F, F[i].parent), i)

Ancestors(F, i) == {PathTo(F, i)[k] : k \in 1..(Len(PathTo(F, i)) - 1)}

\* the comment nodes no non-comment node hides
WalkedNodes(F) ==
    {i \in 1..Len(F) :
        /\ F[i].kind = T1
        /\ \A a \in Ancestors(F, i) : F[a].kind = T1}

PathBefore(p, q) ==
    \/ Len(p) < Len(q) /\ SubSeq(q, 1, Len(p)) = p
    \/ \E k \in 1..Len(p) :
          /\ k <= Len(q)
          /\ SubSeq(p, 1, k - 1) = SubSeq(q, 1, k - 1)
          /\ p[k] < q[k]

\* C6: walkComments(items, 0, []) lists exactly the comment nodes, one
\* record each, in depth-first pre-order, each record's depth the number of
\* its comment ancestors; non-comment and null nodes give no record.
C6_WalkIsPreorder ==
    fnPc = "done" =>
        /\ Len(fnRet) = Cardinality(WalkedNodes(fnArg))
        /\ {fnRet[k].id : k \in 1..Len(fnRet)} = WalkedNodes(fnArg)
        /\ \A k \in 1..Len(fnRet) :
              fnRet[k].depth = Cardinality(Ancestors(fnArg, fnRet[k].id))
        /\ \A j, k \in 1..Len(fnRet) :
              j < k => PathBefore(PathTo(fnArg, fnRet[j].id),
                                  PathTo(fnArg, fnRet[k].id))

\* a walk that met nesting, a later sibling after a subtree, and skipped nodes
C6_Witness ==
    /\ fnPc = "done"
    /\ Len(fnRet) >= 3
    /\ \E k \in 1..Len(fnRet) : fnRet[k].depth = 1
    /\ \E j, k \in 1..Len(fnRet) : j < k /\ fnRet[j].id > fnRet[k].id
    /\ \E i \in 1..Len(fnArg) : fnArg[i].kind # T1


(***************************************************************************)
(* C7.  The formulas of spec section 3.                                    *)
(***************************************************************************)
\* the sum of the scores, a missing score counting 0
RECURSIVE ScoreSum(_)
ScoreSum(comments) ==
    IF comments = <<>> THEN 0
    ELSE ScoreSum(SubSeq(comments, 1, Len(comments) - 1))
         + (IF comments[Len(comments)].score.t = "number"
            THEN comments[Len(comments)].score.n ELSE 0)

SameRatio(a, b) == a.den # 0 /\ b.den # 0 /\ a.num * b.den = b.num * a.den

\* C7: totalComments is the record count, totalCommentScore the sum of the
\* scores with a missing score as 0, avgCommentScore their quotient and 0
\* for no comments, commentsPerScorePoint the count over the sum for every
\* sum other than 0, negative sums included, and 0 for the sum 0.
C7_StatsFollowSection3 ==
    fnPc = "done" =>
        LET st == fnRet
            n == Len(fnArg)
            sum == ScoreSum(fnArg)
        IN  /\ st.totalComments = n
            /\ st.totalCommentScore = sum
            /\ SameRatio(st.avgCommentScore,
                         IF n = 0 THEN ZeroRatio ELSE Ratio(sum, n))
            /\ SameRatio(st.commentsPerScorePoint,
                         IF sum = 0 THEN ZeroRatio ELSE Ratio(n, sum))

(***************************************************************************)
(* C8.  Newlines and white space of the two text outputs.                  *)
(***************************************************************************)
NoDoubleNewline(s) == \A i \in 1..(Len(s) - 1) : ~(s[i] = NL /\ s[i + 1] = NL)

NonBlank(s) == \E i \in 1..Len(s) : s[i] \notin WhiteSpace

\* the words of s, in order, joined by single spaces
RECURSIVE JoinedWords(_, _)
JoinedWords(s, open) ==
    IF s = <<>> THEN <<>>
    ELSE IF Head(s) \in WhiteSpace
         THEN JoinedWords(Tail(s), open)
         ELSE (IF open /\ NonBlank(Tail(s)) /\ Tail(s)[1] \in WhiteSpace
               THEN <<Head(s), SP>> ELSE <<Head(s)>>)
              \o JoinedWords(Tail(s), TRUE)

Count(s, c) == Cardinality({i \in 1..Len(s) : s[i] = c})

NonBlankComments(comments) ==
    SelectSeq(comments, LAMBDA c : NonBlank(c.body.s))

\* the lines of the compact output after its COMMENTS: line
ToonCommentLines(toon) ==
    LET ls == Split(toon, NL)
        k == IndexOf(ls, <<COMMENTS_HDR>>)
    IN  SubSeq(ls, k + 1, Len(ls) - 1)

\* C8: neither text output holds two consecutive newlines; in the compact
\* output every comment with a non-blank body is exactly one line, its body
\* with every white-space run a single space; a comment with a blank body
\* adds nothing to either output.
C8_NewlinesAndOneLinePerComment ==
    fnPc = "done" =>
        LET shown == NonBlankComments(fnArg.comments) IN
        /\ NoDoubleNewline(fnRet.txt)
        /\ NoDoubleNewline(fnRet.toon)
        /\ ToonCommentLines(fnRet.toon) =
              [k \in 1..Len(shown) |->
                  <<"d", ToString(shown[k].depth), TOON_USER,
                    shown[k].author, TOON_COLON>>
                  \o JoinedWords(shown[k].body.s, TRUE)]
        /\ Count(fnRet.txt, LLM_USER) = Len(shown)
        /\ fnRet.txt[Len(fnRet.txt)] = NL

\* the body "a\n\n\n\na" beside a comment with a blank body
C8_Witness ==
    /\ fnPc = "done"
    /\ Len(fnArg.comments) = 2
    /\ fnArg.comments[1].body.s = <<"a", NL, NL, NL, NL, "a">>
    /\ ~NonBlank(fnArg.comments[2].body.s)
    /\ ToonCommentLines(fnRet.toon) =
          <<<<"d", "0", TOON_USER, "ann", TOON_COLON, "a", SP, "a">>>>

=============================================================================
